---------------------------- MODULE Spec2Model ----------------------------
(***************************************************************************)
(* A model of the UML-to-OWL generation call and of its benchmark record   *)
(* and logger:                                                             *)
(*   - OntologyGenerator.generate / _extract_metrics / BenchmarkMetrics     *)
(*     (ontologyGenerator_V1/models/ollamaTest.py),                        *)
(*   - the earlier dict-based generate_ontology_with_ollama                *)
(*     (ontologyGenerator/models/ollamaTest.py),                           *)
(*   - BenchmarkLogger.save on a small file system with a directory,       *)
(*     inodes, open file descriptors, I/O faults and process interruption. *)
(*                                                                         *)
(* Texts (the UML input, the reply content) are sequences of characters;   *)
(* messages of exceptions are strings.  An Optional value is None (the     *)
(* empty sequence) or Some(v) (the one-element sequence).  Durations are   *)
(* counted in ticks of 1/10000 s, rounded values in the unit of their last *)
(* decimal (milliseconds, hundredths of a token per second, thousandths of *)
(* a kilobyte).                                                            *)
(***************************************************************************)
EXTENDS Integers, Sequences, FiniteSets, TLC

VARIABLES
    \* ---- one invocation of a generation function
    version,          \* "V1": OntologyGenerator.generate, "V0": the dict-based function
    uml,              \* argument uml
    benchmark,        \* argument benchmark
    gpc,              \* position in the function
    ontology_content, \* local
    response_data,    \* local (V1): None or Some(reply)
    error_msg,        \* local (V1): None or Some(string)
    pending,          \* the exception in flight: None or Some(exception)
    tryError,         \* the exception the try body raised: None or Some(exception)
    duration,         \* local: the measured elapsed time, in ticks
    metrics,          \* local (V0): the metrics dict under construction
    chatCalls,        \* number of ollama.chat requests issued
    recordsBuilt,     \* number of benchmark records / metrics dicts constructed
    outcome,          \* how the invocation ended
    \* ---- the benchmark results file and the save calls on it
    output_file,      \* BenchmarkLogger.output_file
    dir,              \* directory: path -> inode number, 0 when there is no such file
    inode,            \* inode number -> content of the file
    spc,              \* per caller: position in save
    results,          \* per caller: local list `results` (empty outside a call)
    fd,               \* per caller: inode the open temporary file descriptor refers to
    arg,              \* per caller: the metrics object being saved
    status,           \* per caller: how its last save ended
    cause,            \* per caller: the exception the except clause caught
    before,           \* per caller: content of the target when its call began
    overlapped,       \* per caller: whether another call was active during one of its calls
    log,              \* records of the calls that returned, in order of return
    initial,          \* content of the target before the first call
    nsaves            \* number of save calls begun

gvars == <<version, uml, benchmark, gpc, ontology_content, response_data, error_msg,
           pending, tryError, duration, metrics, chatCalls, recordsBuilt, outcome>>

svars == <<output_file, dir, inode, spc, results, fd, arg, status, cause, before,
           overlapped, log, initial, nsaves>>

vars == <<gvars, svars>>

-----------------------------------------------------------------------------
(* Bounds *)

MaxUmlLen == 2

MaxReplyLen == 2

\* save calls begun in one behaviour
MaxSaves == 2

-----------------------------------------------------------------------------
(* Values *)

None == <<>>

Some(v) == <<v>>

Chars == {" ", "a", "e'"}

\* the characters str.strip() removes
Whitespace == {" "}

\* "e'" stands for a two-byte character such as e-acute
Utf8Len(c) == IF c = "e'" THEN 2 ELSE 1

Texts(n) == UNION {[1..k -> Chars] : k \in 0..n}

\* elapsed times a clock can report, in ticks of 1/10000 s (no rounding ties)
Durations == {0, 4, 16, 20000}

EvalCounts == {None, Some(0), Some(26)}

DEFAULT_MODEL == "llama3.1:8b"

Timestamp == "now"

RECURSIVE ByteLen(_)
ByteLen(s) == IF s = <<>> THEN 0 ELSE Utf8Len(Head(s)) + ByteLen(Tail(s))

RECURSIVE LStrip(_)
LStrip(s) == IF s # <<>> /\ Head(s) \in Whitespace THEN LStrip(Tail(s)) ELSE s

RECURSIVE RStrip(_)
RStrip(s) ==
    IF s # <<>> /\ s[Len(s)] \in Whitespace THEN RStrip(SubSeq(s, 1, Len(s) - 1)) ELSE s

StripLeftOnly(s) == LStrip(s)

\* str.strip()
Strip(s) == RStrip(LStrip(s))

\* round(n / d) to the nearest integer, ties to even
RoundDiv(n, d) ==
    LET q == n \div d
        r == n % d
    IN  IF 2 * r < d THEN q
        ELSE IF 2 * r > d THEN q + 1
        ELSE IF q % 2 = 0 THEN q ELSE q + 1

\* `not uml` alone, without the strip() test
IsEmptyOnly(s) == s = <<>>

\* not uml or not uml.strip()
IsBlank(s) == s = <<>> \/ Strip(s) = <<>>

Exc(type, msg) == [type |-> type, msg |-> msg, cause |-> None]

\* raise RuntimeError(msg) from e
RuntimeErrorFrom(msg, e) == [type |-> "RuntimeError", msg |-> msg, cause |-> Some(e)]

\* the replies ollama.chat can return: with or without message/content, with or
\* without eval_count
Replies ==
    [shape : {"ok"}, content : Texts(MaxReplyLen), eval_count : EvalCounts]
    \cup [shape : {"no_message", "no_content"}, content : {<<>>}, eval_count : {None}]

\* the exceptions ollama.chat can raise
ChatErrors ==
    {Exc(t, m) : t \in {"ConnectionError", "ResponseError"}, m \in {"", "refused"}}

\* response['message']['content'] on a reply without the field
MissingKey(reply) ==
    IF reply.shape = "no_message" THEN Exc("KeyError", "'message'")
    ELSE Exc("KeyError", "'content'")

-----------------------------------------------------------------------------
(* BenchmarkMetrics and OntologyGenerator._extract_metrics *)

OptionalFields == {"error", "tokens_generated", "tokens_per_second"}

\* truth value of an Optional[int] in a condition: None and 0 are false
Truthy(opt) == opt # None /\ opt[1] # 0

\* _calculate_size: (character count, kilobytes as the exact fraction bytes/1024)
CalculateSize(content) == <<Len(content), <<ByteLen(content), 1024>>>>

\* round(kb, 3), in thousandths of a kilobyte
RoundKb(kb) == RoundDiv(kb[1] * 1000, kb[2])

\* round(duration, 3), in milliseconds
RoundSeconds(d) == RoundDiv(d, 10)

\* round(tokens / duration, 2), in hundredths of a token per second
RoundRate(tokens, d) == RoundDiv(tokens * 1000000, d)

\* round(tokens / duration, 2) if tokens and duration > 0 else None
TokensPerSec(tokens, d) ==
    IF Truthy(tokens) /\ d > 0 THEN Some(RoundRate(tokens[1], d)) ELSE None

\* success = error is None
Success(error) == error = None

\* OntologyGenerator._extract_metrics
ExtractMetrics(u, ontology, d, response, error) ==
    LET input  == CalculateSize(u)
        output == CalculateSize(ontology)
        tokens == IF response # None THEN response[1].eval_count ELSE None
    IN  [model                   |-> DEFAULT_MODEL,
         timestamp               |-> Timestamp,
         input_size_chars        |-> input[1],
         input_size_kb           |-> RoundKb(input[2]),
         generation_time_seconds |-> RoundSeconds(d),
         output_size_chars       |-> output[1],
         output_size_kb          |-> RoundKb(output[2]),
         success                 |-> Success(error),
         error                   |-> error,
         tokens_generated        |-> tokens,
         tokens_per_second       |-> TokensPerSec(tokens, d)]

\* BenchmarkMetrics.to_dict: the fields whose value is not None
ToDict(m) == [k \in {f \in DOMAIN m : f \in OptionalFields => m[f] # None} |-> m[k]]

\* BenchmarkMetrics(**d): the optional fields a dict lacks default to None
FromDict(d) ==
    [k \in DOMAIN d \cup OptionalFields |-> IF k \in DOMAIN d THEN d[k] ELSE None]

\* dict.update
Update(d, e) == [k \in DOMAIN d \cup DOMAIN e |-> IF k \in DOMAIN e THEN e[k] ELSE d[k]]

\* a field of a record or dict is absent: no such key, or None
Absent(rec, k) == k \notin DOMAIN rec \/ rec[k] = None

-----------------------------------------------------------------------------
(* How an invocation ends *)

NoOutcome == [kind |-> "none", text |-> <<>>, record |-> None, exc |-> None]

Returned(text, record) == [kind |-> "return", text |-> text, record |-> record, exc |-> None]

Raised(e) == [kind |-> "raise", text |-> <<>>, record |-> None, exc |-> Some(e)]

-----------------------------------------------------------------------------
(* OntologyGenerator.generate (V1) *)

GenFrame ==
    /\ UNCHANGED <<version, uml, benchmark, svars>>
    /\ tryError' = IF pending = None /\ pending' # None THEN pending' ELSE tryError

\* lines 127-134: the validation, then the locals
Validate ==
    /\ version = "V1" /\ gpc = "start"
    /\ IF IsBlank(uml)
       THEN /\ gpc' = "raised"
            /\ outcome' = Raised(Exc("ValueError", "UML input cannot be empty"))
       ELSE /\ gpc' = "try"
            /\ outcome' = outcome
    /\ ontology_content' = <<>>
    /\ response_data' = None
    /\ error_msg' = None
    /\ UNCHANGED <<pending, duration, metrics, chatCalls, recordsBuilt>>
    /\ GenFrame

\* lines 137-140: ollama.chat raises
ChatRaises ==
    /\ version = "V1" /\ gpc = "try"
    /\ \E e \in ChatErrors :
          /\ pending' = Some(e)
          /\ gpc' = "except"
    /\ chatCalls' = chatCalls + 1
    /\ UNCHANGED <<ontology_content, response_data, error_msg, duration, metrics,
                   recordsBuilt, outcome>>
    /\ GenFrame

\* lines 137-143: ollama.chat returns a reply, and the content is taken from it
ChatReplies ==
    /\ version = "V1" /\ gpc = "try"
    /\ \E reply \in Replies :
          IF reply.shape = "ok"
          THEN /\ ontology_content' = Strip(reply.content)
               /\ response_data' = Some(reply)
               /\ gpc' = "finally"
               /\ pending' = pending
          ELSE /\ pending' = Some(MissingKey(reply))
               /\ gpc' = "except"
               /\ UNCHANGED <<ontology_content, response_data>>
    /\ chatCalls' = chatCalls + 1
    /\ UNCHANGED <<error_msg, duration, metrics, recordsBuilt, outcome>>
    /\ GenFrame

\* every failure described as an API error
DescribeAllAsApiError(e) == "Ollama API error: " \o e.type \o ": " \o e.msg

\* lines 145-150: the message of the RuntimeError, by the handler that catches e
Describe(e) ==
    IF e.type = "KeyError"
    THEN "Unexpected response format from Ollama: " \o e.msg
    ELSE "Ollama API error: " \o e.type \o ": " \o e.msg

\* lines 145-150: the except clauses
Except ==
    /\ version = "V1" /\ gpc = "except"
    /\ error_msg' = Some(Describe(pending[1]))
    /\ pending' = Some(RuntimeErrorFrom(Describe(pending[1]), pending[1]))
    /\ gpc' = "finally"
    /\ UNCHANGED <<ontology_content, response_data, duration, metrics, chatCalls,
                   recordsBuilt, outcome>>
    /\ GenFrame

\* a finally clause that does not return: the exception in flight goes on
FinallyWithoutReturn ==
    /\ version = "V1" /\ gpc = "finally"
    /\ \E d \in Durations :
          /\ duration' = d
          /\ IF pending # None
             THEN /\ gpc' = "raised"
                  /\ outcome' = Raised(pending[1])
                  /\ recordsBuilt' = recordsBuilt + (IF benchmark THEN 1 ELSE 0)
             ELSE IF benchmark
             THEN /\ recordsBuilt' = recordsBuilt + 1
                  /\ outcome' = Returned(ontology_content,
                        Some(ExtractMetrics(uml, ontology_content, d, response_data,
                                            error_msg)))
                  /\ gpc' = "returned"
             ELSE /\ gpc' = "after"
                  /\ UNCHANGED <<recordsBuilt, outcome>>
    /\ pending' = None
    /\ UNCHANGED <<ontology_content, response_data, error_msg, metrics, chatCalls>>
    /\ GenFrame

\* lines 151-158: the finally clause.  Its return statement ends the call and
\* discards the exception in flight; without it the exception goes on, or the
\* function goes on to line 160.
Finally ==
    /\ version = "V1" /\ gpc = "finally"
    /\ \E d \in Durations :
          /\ duration' = d
          /\ IF benchmark
             THEN /\ recordsBuilt' = recordsBuilt + 1
                  /\ outcome' = Returned(ontology_content,
                        Some(ExtractMetrics(uml, ontology_content, d, response_data,
                                            error_msg)))
                  /\ gpc' = "returned"
             ELSE IF pending # None
             THEN /\ gpc' = "raised"
                  /\ outcome' = Raised(pending[1])
                  /\ recordsBuilt' = recordsBuilt
             ELSE /\ gpc' = "after"
                  /\ UNCHANGED <<recordsBuilt, outcome>>
    /\ pending' = None
    /\ UNCHANGED <<ontology_content, response_data, error_msg, metrics, chatCalls>>
    /\ GenFrame

\* line 160
ReturnContent ==
    /\ version = "V1" /\ gpc = "after"
    /\ gpc' = "returned"
    /\ outcome' = Returned(ontology_content, None)
    /\ UNCHANGED <<ontology_content, response_data, error_msg, pending, duration,
                   metrics, chatCalls, recordsBuilt>>
    /\ GenFrame

-----------------------------------------------------------------------------
(* generate_ontology_with_ollama, the dict-based earlier version (V0) *)

\* lines 22-27: the metrics dict, built before anything else (no validation)
V0BuildMetrics ==
    /\ version = "V0" /\ gpc = "start"
    /\ metrics' = [model            |-> DEFAULT_MODEL,
                   timestamp        |-> Timestamp,
                   input_size_chars |-> Len(uml),
                   input_size_kb    |-> <<ByteLen(uml), 1024>>]
    /\ recordsBuilt' = recordsBuilt + 1
    /\ gpc' = "try"
    /\ UNCHANGED <<ontology_content, response_data, error_msg, pending, duration,
                   chatCalls, outcome>>
    /\ GenFrame

\* lines 42-45: ollama.chat raises
V0ChatRaises ==
    /\ version = "V0" /\ gpc = "try"
    /\ \E e \in ChatErrors :
          /\ pending' = Some(e)
          /\ gpc' = "except"
    /\ chatCalls' = chatCalls + 1
    /\ UNCHANGED <<ontology_content, response_data, error_msg, duration, metrics,
                   recordsBuilt, outcome>>
    /\ GenFrame

\* lines 55-61: the fields of a successful attempt
V0SuccessFields(content, elapsed) ==
    [generation_time_seconds |-> RoundSeconds(elapsed),
     output_size_chars       |-> Len(content),
     output_size_kb          |-> <<ByteLen(content), 1024>>,
     success                 |-> TRUE,
     error                   |-> None]

\* lines 79-85: the fields of a failed attempt
V0FailureFields(e) ==
    [generation_time_seconds |-> 0,
     output_size_chars       |-> 0,
     output_size_kb          |-> <<0, 1024>>,
     success                 |-> FALSE,
     error                   |-> Some(e.msg)]

\* lines 42-72: ollama.chat returns; the statements run in order and the first
\* one that raises leaves the dict as the earlier ones made it
V0ChatReplies ==
    /\ version = "V0" /\ gpc = "try"
    /\ \E reply \in Replies, elapsed \in Durations :
          /\ duration' = elapsed
          /\ IF reply.shape # "ok"
             THEN /\ pending' = Some(MissingKey(reply))
                  /\ gpc' = "except"
                  /\ UNCHANGED <<ontology_content, metrics, outcome>>
             ELSE /\ ontology_content' = reply.content
                  /\ IF ~benchmark
                     THEN /\ outcome' = Returned(reply.content, None)
                          /\ gpc' = "returned"
                          /\ UNCHANGED <<metrics, pending>>
                     ELSE LET m1 == Update(metrics, V0SuccessFields(reply.content, elapsed))
                              m2 == Update(m1, [tokens_generated |-> reply.eval_count])
                              m3 == Update(m2, [tokens_per_second |->
                                        Some(RoundRate(reply.eval_count[1], elapsed))])
                          IN  IF reply.eval_count = None
                              THEN /\ metrics' = m1
                                   /\ outcome' = Returned(reply.content, Some(m1))
                                   /\ gpc' = "returned"
                                   /\ pending' = pending
                              ELSE IF elapsed = 0
                              THEN /\ metrics' = m2
                                   /\ pending' = Some(Exc("ZeroDivisionError",
                                                          "float division by zero"))
                                   /\ gpc' = "except"
                                   /\ outcome' = outcome
                              ELSE /\ metrics' = m3
                                   /\ outcome' = Returned(reply.content, Some(m3))
                                   /\ gpc' = "returned"
                                   /\ pending' = pending
    /\ chatCalls' = chatCalls + 1
    /\ UNCHANGED <<response_data, error_msg, recordsBuilt>>
    /\ GenFrame

\* lines 74-88: except Exception
V0Except ==
    /\ version = "V0" /\ gpc = "except"
    /\ IF benchmark
       THEN /\ metrics' = Update(metrics, V0FailureFields(pending[1]))
            /\ outcome' = Returned(<<>>, Some(Update(metrics, V0FailureFields(pending[1]))))
       ELSE /\ metrics' = metrics
            /\ outcome' = Returned(<<>>, None)
    /\ pending' = None
    /\ gpc' = "returned"
    /\ UNCHANGED <<ontology_content, response_data, error_msg, duration, chatCalls,
                   recordsBuilt>>
    /\ GenFrame

-----------------------------------------------------------------------------
(* The file system under BenchmarkLogger *)

Callers == {1, 2}

Path(stem, suffix) == [stem |-> stem, suffix |-> suffix]

\* the paths a logger is constructed with: the default name, and a name whose
\* suffix is already .tmp
OutputFiles == {Path("benchmark_results", ".json"), Path("benchmark_results", ".tmp")}

\* Path.with_suffix: the same name with its suffix replaced
WithSuffix(path, suffix) == [path EXCEPT !.suffix = suffix]

Paths == OutputFiles \cup {WithSuffix(f, ".tmp") : f \in OutputFiles}

\* the content of a file: a JSON array of records, another JSON value, or text
\* that is not JSON (an empty or partially written file); items are the records
\* written so far
Array(items) == [kind |-> "array", items |-> items]

Partial(items) == [kind |-> "invalid", items |-> items]

JsonObject == [kind |-> "object", items |-> <<>>]

NoFile == [kind |-> "absent", items |-> <<>>]

\* what a reader of `path` finds
FileView(path) == IF dir[path] = 0 THEN NoFile ELSE inode[dir[path]]

\* `data` written from offset 0 through a descriptor into a file holding `old`:
\* what lies beyond the written part stays, and the file is a JSON array only when
\* the write is complete and nothing stays beyond it
Overlay(old, data, complete) ==
    LET rest == SubSeq(old.items, Len(data) + 1, Len(old.items))
    IN  IF complete /\ rest = <<>> THEN Array(data) ELSE Partial(data \o rest)

\* a file with no name left and no open descriptor is freed by the system
Collect(inodes, directory, fds) ==
    [i \in DOMAIN inodes |->
        IF (\E f \in DOMAIN directory : directory[f] = i) \/ (\E q \in DOMAIN fds : fds[q] = i)
        THEN inodes[i] ELSE NoFile]

\* the records a pre-existing results file may hold
OldRecords == {[model |-> "x", success |-> TRUE]}

\* the metrics objects handed to save: one of a successful attempt, one of a failed
SavedMetrics ==
    {ExtractMetrics(<<"a">>, <<"a", "e'">>, 20000,
                    Some([shape |-> "ok", content |-> <<"a", "e'">>, eval_count |-> Some(26)]),
                    None),
     ExtractMetrics(<<"a">>, <<>>, 16, None,
                    Some(Describe(Exc("ConnectionError", "refused"))))}

\* the same objects as save_benchmark_results rebuilds them from the dict that the
\* dict-returning wrapper hands out (lines 262, 278)
LegacyMetrics == {FromDict(ToDict(m)) : m \in SavedMetrics}

\* what the target may hold before the first save
InitialContents ==
    {NoFile, Array(<<>>), JsonObject, Partial(<<>>)} \cup {Array(<<r>>) : r \in OldRecords}

\* results.append(d) putting the record first
PrependRecord(list, d) == <<d>> \o list

\* results.append(d)
AppendRecord(list, d) == Append(list, d)

TempFile == WithSuffix(output_file, ".tmp")

Active(p) == spc[p] \notin {"idle", "stopped"}

-----------------------------------------------------------------------------
(* BenchmarkLogger.save *)

SaveUnchanged == UNCHANGED gvars

\* the caller enters save(metrics); line 187
SaveBegin(p) ==
    /\ spc[p] = "idle"
    /\ nsaves < MaxSaves
    /\ \E m \in SavedMetrics \cup LegacyMetrics : arg' = [arg EXCEPT ![p] = m]
    /\ nsaves' = nsaves + 1
    /\ spc' = [spc EXCEPT ![p] = "exists"]
    /\ results' = [results EXCEPT ![p] = [list |-> TRUE, items |-> <<>>]]
    /\ status' = [status EXCEPT ![p] = "running"]
    /\ cause' = [cause EXCEPT ![p] = None]
    /\ before' = [before EXCEPT ![p] = FileView(output_file)]
    /\ overlapped' = [q \in Callers |->
                        IF q = p THEN overlapped[p] \/ \E r \in Callers \ {p} : Active(r)
                        ELSE overlapped[q] \/ Active(q)]
    /\ UNCHANGED <<output_file, dir, inode, fd, log, initial>>
    /\ SaveUnchanged

\* line 188: self.output_file.exists()
Exists(p) ==
    /\ spc[p] = "exists"
    /\ spc' = [spc EXCEPT ![p] = IF dir[output_file] # 0 THEN "load" ELSE "append"]
    /\ UNCHANGED <<output_file, dir, inode, results, fd, arg, status, cause, before, overlapped,
                   log, initial, nsaves>>
    /\ SaveUnchanged

\* a load that always starts from the empty list
JsonLoadEmpty(content) ==
    IF content.kind \in {"array", "object"}
    THEN [ok |-> TRUE, list |-> content.kind = "array", items |-> <<>>]
    ELSE [ok |-> FALSE, list |-> FALSE, items |-> <<>>]

\* json.load of a file's content: a list, a value that is no list, or a failure
JsonLoad(content) ==
    IF content.kind = "array" THEN [ok |-> TRUE, list |-> TRUE, items |-> content.items]
    ELSE IF content.kind = "object" THEN [ok |-> TRUE, list |-> FALSE, items |-> <<>>]
    ELSE [ok |-> FALSE, list |-> FALSE, items |-> <<>>]

\* lines 189-190: open the target and parse it
Load(p) ==
    /\ spc[p] = "load"
    /\ LET loaded == JsonLoad(FileView(output_file))
       IN  IF loaded.ok
           THEN /\ results' = [results EXCEPT ![p] = [list |-> loaded.list,
                                                      items |-> loaded.items]]
                /\ spc' = [spc EXCEPT ![p] = "append"]
                /\ cause' = cause
           ELSE /\ results' = results
                /\ spc' = [spc EXCEPT ![p] = "except"]
                /\ cause' = [cause EXCEPT ![p] =
                                Some(IF dir[output_file] = 0 THEN "FileNotFoundError"
                                     ELSE "JSONDecodeError")]
    /\ UNCHANGED <<output_file, dir, inode, fd, arg, status, before, overlapped, log,
                   initial, nsaves>>
    /\ SaveUnchanged

\* line 189: the target cannot be opened for reading
LoadFails(p) ==
    /\ spc[p] = "load"
    /\ spc' = [spc EXCEPT ![p] = "except"]
    /\ cause' = [cause EXCEPT ![p] = Some("PermissionError")]
    /\ UNCHANGED <<output_file, dir, inode, results, fd, arg, status, before, overlapped,
                   log, initial, nsaves>>
    /\ SaveUnchanged

\* line 193: results.append(metrics.to_dict()); a value that is no list has no append
AppendMetrics(p) ==
    /\ spc[p] = "append"
    /\ IF results[p].list
       THEN /\ results' = [results EXCEPT
                              ![p].items = AppendRecord(results[p].items, ToDict(arg[p]))]
            /\ spc' = [spc EXCEPT ![p] = "open"]
            /\ cause' = cause
       ELSE /\ results' = results
            /\ spc' = [spc EXCEPT ![p] = "except"]
            /\ cause' = [cause EXCEPT ![p] = Some("AttributeError")]
    /\ UNCHANGED <<output_file, dir, inode, fd, arg, status, before, overlapped, log,
                   initial, nsaves>>
    /\ SaveUnchanged

\* lines 196-197: open(temp_file, 'w') creates the file or truncates it
OpenTemp(p) ==
    /\ spc[p] = "open"
    /\ IF dir[TempFile] = 0
       THEN /\ inode' = Append(inode, Partial(<<>>))
            /\ dir' = [dir EXCEPT ![TempFile] = Len(inode) + 1]
            /\ fd' = [fd EXCEPT ![p] = Len(inode) + 1]
       ELSE /\ inode' = [inode EXCEPT ![dir[TempFile]] = Partial(<<>>)]
            /\ dir' = dir
            /\ fd' = [fd EXCEPT ![p] = dir[TempFile]]
    /\ spc' = [spc EXCEPT ![p] = "write"]
    /\ UNCHANGED <<output_file, results, arg, status, cause, before, overlapped, log, initial,
                   nsaves>>
    /\ SaveUnchanged

\* line 197: the temporary file cannot be opened for writing
OpenTempFails(p) ==
    /\ spc[p] = "open"
    /\ spc' = [spc EXCEPT ![p] = "except"]
    /\ cause' = [cause EXCEPT ![p] = Some("PermissionError")]
    /\ UNCHANGED <<output_file, dir, inode, results, fd, arg, status, before, overlapped,
                   log, initial, nsaves>>
    /\ SaveUnchanged

\* line 198: json.dump, the first part of the text reaches the file
WriteChunk(p) ==
    /\ spc[p] = "write"
    /\ LET items == results[p].items
       IN  inode' = [inode EXCEPT ![fd[p]] =
                        Overlay(inode[fd[p]], SubSeq(items, 1, Len(items) - 1), FALSE)]
    /\ spc' = [spc EXCEPT ![p] = "writing"]
    /\ UNCHANGED <<output_file, dir, results, fd, arg, status, cause, before, overlapped, log,
                   initial, nsaves>>
    /\ SaveUnchanged

\* lines 197-198: the rest of the text reaches the file and the file is closed
WriteRest(p) ==
    /\ spc[p] = "writing"
    /\ fd' = [fd EXCEPT ![p] = 0]
    /\ inode' = Collect([inode EXCEPT ![fd[p]] = Overlay(inode[fd[p]], results[p].items, TRUE)],
                        dir, fd')
    /\ spc' = [spc EXCEPT ![p] = "replace"]
    /\ UNCHANGED <<output_file, dir, results, arg, status, cause, before, overlapped, log,
                   initial, nsaves>>
    /\ SaveUnchanged

\* line 198: a write fails (disk full, I/O error); the file keeps what reached it
WriteFails(p) ==
    /\ spc[p] \in {"write", "writing"}
    /\ fd' = [fd EXCEPT ![p] = 0]
    /\ inode' = Collect(inode, dir, fd')
    /\ spc' = [spc EXCEPT ![p] = "except"]
    /\ cause' = [cause EXCEPT ![p] = Some("OSError")]
    /\ UNCHANGED <<output_file, dir, results, arg, status, before, overlapped, log,
                   initial, nsaves>>
    /\ SaveUnchanged

\* line 200: temp_file.replace(self.output_file) renames the temporary file onto
\* the target (nothing to do when they are the same file)
Replace(p) ==
    /\ spc[p] = "replace"
    /\ IF dir[TempFile] = 0
       THEN /\ spc' = [spc EXCEPT ![p] = "except"]
            /\ cause' = [cause EXCEPT ![p] = Some("FileNotFoundError")]
            /\ UNCHANGED <<dir, inode>>
       ELSE /\ dir' = IF TempFile = output_file THEN dir
                      ELSE [dir EXCEPT ![output_file] = dir[TempFile], ![TempFile] = 0]
            /\ inode' = Collect(inode, dir', fd)
            /\ spc' = [spc EXCEPT ![p] = "print"]
            /\ cause' = cause
    /\ UNCHANGED <<output_file, results, fd, arg, status, before, overlapped, log,
                   initial, nsaves>>
    /\ SaveUnchanged

\* line 201: the confirmation is printed and the call returns
PrintSaved(p) ==
    /\ spc[p] = "print"
    /\ spc' = [spc EXCEPT ![p] = "idle"]
    /\ status' = [status EXCEPT ![p] = "returned"]
    /\ log' = Append(log, ToDict(arg[p]))
    /\ results' = [results EXCEPT ![p] = [list |-> TRUE, items |-> <<>>]]
    /\ UNCHANGED <<output_file, dir, inode, fd, arg, cause, before, overlapped,
                   initial, nsaves>>
    /\ SaveUnchanged

\* line 201: print raises inside the try block (a closed stdout, or a console
\* encoding without the check mark)
PrintFails(p) ==
    /\ spc[p] = "print"
    /\ spc' = [spc EXCEPT ![p] = "except"]
    /\ cause' = [cause EXCEPT ![p] = Some("UnicodeEncodeError")]
    /\ UNCHANGED <<output_file, dir, inode, results, fd, arg, status, before, overlapped,
                   log, initial, nsaves>>
    /\ SaveUnchanged

\* line 200: the rename fails
ReplaceFails(p) ==
    /\ spc[p] = "replace"
    /\ spc' = [spc EXCEPT ![p] = "except"]
    /\ cause' = [cause EXCEPT ![p] = Some("OSError")]
    /\ UNCHANGED <<output_file, dir, inode, results, fd, arg, status, before, overlapped,
                   log, initial, nsaves>>
    /\ SaveUnchanged

\* lines 203-204: except Exception: raise IOError(...) from e
RaiseIOError(p) ==
    /\ spc[p] = "except"
    /\ spc' = [spc EXCEPT ![p] = "idle"]
    /\ status' = [status EXCEPT ![p] = "raised"]
    /\ results' = [results EXCEPT ![p] = [list |-> TRUE, items |-> <<>>]]
    /\ UNCHANGED <<output_file, dir, inode, fd, arg, cause, before, overlapped, log,
                   initial, nsaves>>
    /\ SaveUnchanged

\* the process is interrupted inside save: nothing more of it runs
Interrupt(p) ==
    /\ Active(p)
    /\ spc' = [spc EXCEPT ![p] = "stopped"]
    /\ status' = [status EXCEPT ![p] = "interrupted"]
    /\ fd' = [fd EXCEPT ![p] = 0]
    /\ inode' = Collect(inode, dir, fd')
    /\ results' = [results EXCEPT ![p] = [list |-> TRUE, items |-> <<>>]]
    /\ UNCHANGED <<output_file, dir, arg, cause, before, overlapped, log,
                   initial, nsaves>>
    /\ SaveUnchanged

-----------------------------------------------------------------------------
(* Specifications *)

\* no generation call is in progress
GenQuiet ==
    /\ version = "V1" /\ uml = <<>> /\ benchmark = TRUE /\ gpc = "idle"
    /\ ontology_content = <<>> /\ response_data = None /\ error_msg = None
    /\ pending = None /\ tryError = None /\ duration = 0 /\ metrics = <<>>
    /\ chatCalls = 0 /\ recordsBuilt = 0 /\ outcome = NoOutcome

\* no logger is in use
SaveQuiet ==
    /\ output_file = Path("benchmark_results", ".json")
    /\ dir = [f \in Paths |-> 0] /\ inode = <<>>
    /\ spc = [p \in Callers |-> "idle"]
    /\ results = [p \in Callers |-> [list |-> TRUE, items |-> <<>>]]
    /\ fd = [p \in Callers |-> 0]
    /\ arg = [p \in Callers |-> None]
    /\ status = [p \in Callers |-> "none"]
    /\ cause = [p \in Callers |-> None]
    /\ before = [p \in Callers |-> NoFile]
    /\ overlapped = [p \in Callers |-> FALSE]
    /\ log = <<>> /\ initial = NoFile /\ nsaves = 0

\* a generation function is called with some UML text and some benchmark flag
GenInit ==
    /\ version \in {"V1", "V0"}
    /\ uml \in Texts(MaxUmlLen)
    /\ benchmark \in BOOLEAN
    /\ gpc = "start"
    /\ ontology_content = <<>> /\ response_data = None /\ error_msg = None
    /\ pending = None /\ tryError = None /\ duration = 0 /\ metrics = <<>>
    /\ chatCalls = 0 /\ recordsBuilt = 0 /\ outcome = NoOutcome
    /\ SaveQuiet

GenNext ==
    \/ Validate \/ ChatRaises \/ ChatReplies \/ Except \/ Finally \/ ReturnContent
    \/ V0BuildMetrics \/ V0ChatRaises \/ V0ChatReplies \/ V0Except

SpecGen == GenInit /\ [][GenNext]_vars

\* a logger on some path; the target is missing or holds some content; a temporary
\* file left by an earlier interrupted run may exist
SaveInit ==
    /\ output_file \in OutputFiles
    /\ initial \in InitialContents
    /\ \E stale \in BOOLEAN :
          LET target == IF initial = NoFile THEN <<>> ELSE <<initial>>
              temp   == IF stale /\ TempFile # output_file THEN <<Partial(<<>>)>> ELSE <<>>
          IN  /\ inode = target \o temp
              /\ dir = [f \in Paths |->
                          IF f = output_file THEN Len(target)
                          ELSE IF f = TempFile /\ temp # <<>> THEN Len(target) + 1
                          ELSE 0]
    /\ spc = [p \in Callers |-> "idle"]
    /\ results = [p \in Callers |-> [list |-> TRUE, items |-> <<>>]]
    /\ fd = [p \in Callers |-> 0]
    /\ arg = [p \in Callers |-> None]
    /\ status = [p \in Callers |-> "none"]
    /\ cause = [p \in Callers |-> None]
    /\ before = [p \in Callers |-> NoFile]
    /\ overlapped = [p \in Callers |-> FALSE]
    /\ log = <<>> /\ nsaves = 0
    /\ GenQuiet

SaveStep(p) ==
    \/ SaveBegin(p) \/ Exists(p) \/ Load(p) \/ LoadFails(p) \/ AppendMetrics(p)
    \/ OpenTemp(p) \/ OpenTempFails(p) \/ WriteChunk(p) \/ WriteRest(p) \/ WriteFails(p)
    \/ Replace(p) \/ ReplaceFails(p) \/ PrintSaved(p) \/ PrintFails(p)
    \/ RaiseIOError(p) \/ Interrupt(p)

\* one caller: the calls do not overlap
SeqNext == \E p \in {1} : SaveStep(p)

SpecSeq == SaveInit /\ [][SeqNext]_vars

\* two callers whose calls interleave step by step
ConcNext == \E p \in Callers : SaveStep(p)

SpecConc == SaveInit /\ [][ConcNext]_vars

-----------------------------------------------------------------------------
(* Properties of OntologyGenerator.generate and of the records *)

V1Done == version = "V1" /\ gpc \in {"returned", "raised"}

\* the text holds nothing but whitespace (the empty text included)
AllWhitespace(text) == \A i \in 1..Len(text) : text[i] \in Whitespace

\* t is r without its leading and trailing whitespace
IsTrimOf(t, r) ==
    \E i \in 1..(Len(r) + 1) :
       \E j \in (i - 1)..Len(r) :
          /\ t = SubSeq(r, i, j)
          /\ \A k \in 1..(i - 1) : r[k] \in Whitespace
          /\ \A k \in (j + 1)..Len(r) : r[k] \in Whitespace
          /\ t # <<>> => (t[1] \notin Whitespace /\ t[Len(t)] \notin Whitespace)

\* the description generate gives of a failed chat call
IsDescriptionOf(msg, e) ==
    IF e.type = "KeyError"
    THEN msg = "Unexpected response format from Ollama: " \o e.msg
    ELSE msg = "Ollama API error: " \o e.type \o ": " \o e.msg

C6_ChatRequestCount ==
    /\ version = "V1" => chatCalls <= 1
    /\ V1Done =>
          IF AllWhitespace(uml)
          THEN /\ chatCalls = 0
               /\ recordsBuilt = 0
               /\ outcome.kind = "raise"
               /\ outcome.exc[1].type = "ValueError"
          ELSE chatCalls = 1

C6_Witness ==
    /\ V1Done /\ uml # <<>> /\ AllWhitespace(uml)
    /\ chatCalls = 0 /\ outcome.kind = "raise" /\ outcome.exc[1].type = "ValueError"

\* C7 as stated: in every record built by _extract_metrics, and in its to_dict
\* form, tokens_per_second is present if and only if tokens_generated is present
\* and duration > 0.
C7_TokensPerSecondIff ==
    (version = "V1" /\ outcome.record # None) =>
        LET r == outcome.record[1]
        IN  /\ (r.tokens_per_second # None) <=> (r.tokens_generated # None /\ duration > 0)
            /\ ("tokens_per_second" \in DOMAIN ToDict(r))
                  <=> ("tokens_generated" \in DOMAIN ToDict(r) /\ duration > 0)

\* C8 as stated: every record a generation function returns, of either version,
\* has success=false => error is a non-empty string and the token fields are
\* absent, and success=true => error is absent.
C8_RecordInvariant ==
    outcome.record # None =>
        LET r == outcome.record[1]
        IN  /\ ~r.success => /\ ~Absent(r, "error")
                             /\ r.error[1] # ""
                             /\ Absent(r, "tokens_generated")
                             /\ Absent(r, "tokens_per_second")
            /\ r.success => Absent(r, "error")

\* C9: for non-blank UML text U and a well-formed reply with content R, generate
\* returns R without its leading and trailing whitespace, and the record it returns
\* has success=true, output_size_chars = the length of the returned text and
\* input_size_chars = the length of U, untrimmed.
C9_TrimmedReplyAndSizes ==
    (V1Done /\ response_data # None) =>
        /\ outcome.kind = "return"
        /\ IsTrimOf(outcome.text, response_data[1].content)
        /\ benchmark =>
              /\ outcome.record # None
              /\ outcome.record[1].success
              /\ outcome.record[1].output_size_chars = Len(outcome.text)
              /\ outcome.record[1].input_size_chars = Len(uml)

C9_Witness ==
    /\ V1Done /\ benchmark /\ response_data # None
    /\ uml = <<"a", " ">>
    /\ response_data[1].content = <<"a", " ">>
    /\ outcome.text = <<"a">>
    /\ outcome.record[1].output_size_chars = 1
    /\ outcome.record[1].input_size_chars = 2

-----------------------------------------------------------------------------
(* Properties of BenchmarkLogger.save *)

AllIdle == \A p \in Callers : ~Active(p)

\* every call begun so far has returned (log holds the records of the returned calls)
AllReturned == Len(log) = nsaves

\* the records the target held before the first call (none when it did not exist)
InitialItems == initial.items

\* the target after a save of arg[p] onto what it held when the call began
WithRecordAppended(p) == Array(before[p].items \o <<ToDict(arg[p])>>)

\* C1: after any sequence of successful, non-overlapping save calls the target
\* holds the records it held before the first call, unchanged and in their
\* order, followed by the saved records in call order.
C1_SequentialSavesAppendInOrder ==
    (AllIdle /\ nsaves > 0 /\ AllReturned) =>
        FileView(output_file) = Array(InitialItems \o log)

C1_Witness ==
    /\ AllIdle /\ nsaves = 2 /\ AllReturned
    /\ initial = Array(<<[model |-> "x", success |-> TRUE]>>)
    /\ Len(log) = 2 /\ log[1] # log[2]
    /\ FileView(output_file).items = <<[model |-> "x", success |-> TRUE], log[1], log[2]>>

\* C2 as stated: whatever step of save the process is interrupted at, the target
\* holds the complete list as it was before the call or the complete list with the
\* new record appended, never a partially written state.
C2_InterruptedSaveOldOrNew ==
    \A p \in Callers :
       status[p] \in {"running", "interrupted"} =>
          FileView(output_file) \in {before[p], WithRecordAppended(p)}

\* C3 as stated: a missing target is taken as the empty list and the save goes on;
\* every call either returns with the record as the last element of the target, or
\* raises IOError and leaves the content of the target unchanged.
C3_SaveReturnsOrRaisesUnchanged ==
    \A p \in Callers :
       /\ (status[p] = "returned" /\ spc[p] = "idle") =>
             /\ FileView(output_file).kind = "array"
             /\ FileView(output_file).items # <<>>
             /\ FileView(output_file).items[Len(FileView(output_file).items)]
                   = ToDict(arg[p])
       /\ status[p] = "raised" => FileView(output_file) = before[p]
       /\ (status[p] = "raised" /\ before[p] = NoFile) =>
             cause[p] \notin {Some("JSONDecodeError"), Some("AttributeError")}

\* C10: save has no multi-writer protection.  When no call overlaps another, every
\* returned call's record is in the target, in order of return; when two calls
\* interleave, both may return with only one of their records in the target (the
\* witness).
C10_SerializedSavesKeepAllRecords ==
    (AllIdle /\ nsaves > 0 /\ AllReturned /\ (\A p \in Callers : ~overlapped[p])) =>
        FileView(output_file) = Array(InitialItems \o log)

C10_LostUpdate ==
    /\ AllIdle /\ nsaves = 2 /\ AllReturned
    /\ \A p \in Callers : status[p] = "returned" /\ overlapped[p]
    /\ log[1] # log[2]
    /\ FileView(output_file).kind = "array"
    /\ FileView(output_file).items = InitialItems \o <<log[2]>>

=============================================================================
